---------------------------- MODULE Spec2Model ----------------------------
(***************************************************************************)
(* Model of cidr-convert.c: a batch CIDR aggregator.  The program reads    *)
(* dotted quads, ranges and prefixes from standard input with a 19-state   *)
(* scanner (read_input), stores them in a binary trie that collapses full  *)
(* subtrees as it is built (add_to_node), and prints one address/width     *)
(* line per ALL node at end of input (dump_tree).                          *)
(*                                                                         *)
(* An `unsigned long` is modelled as the set of the positions of its 1     *)
(* bits (bit 0 is the least significant), so that 32-bit addresses and the *)
(* 64-bit intermediate values of save_range are exact.  An `int` is an     *)
(* integer.                                                                *)
(***************************************************************************)
EXTENDS Integers, Sequences, FiniteSets, TLC

VARIABLES
  root,       \* static NODE *root
  state,      \* read_input: int state
  n,          \* read_input: int n (-1 is the error latch)
  a,          \* read_input: unsigned long a
  a1,         \* read_input: unsigned long a1
  line,       \* read_input: int line
  stdin,      \* bytes written to standard input and not yet read
  pc,         \* "read" while in read_input's loop, then "exit" or "abort"
  stdout,     \* the lines printed by dump_tree, in order
  stderr,     \* number of diagnostics printed so far
  saved,      \* history: the save_one_addr/save_range/save_cidr calls made
  typed,      \* history: number of chunks written to standard input
  units,      \* history: the units or lines written to standard input
  rng,        \* save_range while it runs: a1, a2 and, as history, its blocks
  heap        \* the NODEs malloc'ed so far and the pointers to them

vars == <<root, state, n, a, a1, line, stdin, pc, stdout, stderr, saved,
          typed, units, rng, heap>>

-----------------------------------------------------------------------------
(* unsigned long arithmetic *)

\* Width of unsigned long in the LP64 build of the program.
ULONG_BITS == 64

ULongBits == 0 .. (ULONG_BITS - 1)

\* The unsigned long with the value of the non-negative int k.
ULong(k) == {i \in 0 .. 30 : (k \div (2 ^ i)) % 2 = 1}

\* The int value of an unsigned long below 2^8.
Val(x) ==
  (IF 0 \in x THEN 1 ELSE 0) + (IF 1 \in x THEN 2 ELSE 0)
    + (IF 2 \in x THEN 4 ELSE 0) + (IF 3 \in x THEN 8 ELSE 0)
    + (IF 4 \in x THEN 16 ELSE 0) + (IF 5 \in x THEN 32 ELSE 0)
    + (IF 6 \in x THEN 64 ELSE 0) + (IF 7 \in x THEN 128 ELSE 0)

\* x << k, x >> k, x & y, x | y, ~x
Shl(x, k) == {i + k : i \in x} \cap ULongBits
Shr(x, k) == {i - k : i \in {j \in x : j >= k}}
And(x, y) == x \cap y
Or(x, y) == x \cup y
Not(x) == ULongBits \ x

\* The carry into bit i of x + y: some lower bit generates a carry and every
\* bit between propagates it.
Carry(x, y, i) ==
  \E j \in x \cap y :
    j < i /\ \A k \in (j + 1) .. (i - 1) : k \in x \/ k \in y

\* x + y and x - 1, modulo 2^ULONG_BITS
Plus(x, y) ==
  {i \in ULongBits : ((i \in x) <=> (i \in y)) <=> Carry(x, y, i)}
Minus1(x) == Plus(x, ULongBits)

\* x > y and x <= y, unsigned
Gt(x, y) ==
  \E i \in x \ y : \A j \in (i + 1) .. (ULONG_BITS - 1) : (j \in x) <=> (j \in y)
Le(x, y) == ~Gt(x, y)

\* The address o1.o2.o3.o4
Quad(o1, o2, o3, o4) ==
  Or(Or(Shl(ULong(o1), 24), Shl(ULong(o2), 16)), Or(Shl(ULong(o3), 8), ULong(o4)))

-----------------------------------------------------------------------------
(* The tree *)

NONE == [kind |-> "NONE"]
ALL == [kind |-> "ALL"]
\* A malloc'ed NODE with children sub[0] = l and sub[1] = r.
Node(l, r) == [kind |-> "NODE", sub |-> <<l, r>>]
\* n->sub[i]
Sub(nd, i) == nd.sub[i + 1]
\* n->sub[i] = c
SetSub(nd, i, c) == [nd EXCEPT !.sub[i + 1] = c]

\* (a >> bit) & 1
BitOf(x, bit) == IF bit \in x THEN 1 ELSE 0

RECURSIVE add_to_node(_, _, _, _)

\* add_to_node without the collapse of a node whose two children are ALL.
add_to_node_NoCollapse(np, x, bit, end) ==
  IF np = ALL \/ bit <= end THEN ALL
  ELSE LET nd == IF np = NONE THEN Node(NONE, NONE) ELSE np
           i == BitOf(x, bit)
       IN  SetSub(nd, i, add_to_node(Sub(nd, i), x, bit - 1, end))

\* add_to_node that does not mark the block it has reached.
add_to_node_NoMark(np, x, bit, end) ==
  IF np = ALL \/ bit <= end THEN np
  ELSE LET nd == IF np = NONE THEN Node(NONE, NONE) ELSE np
           i == BitOf(x, bit)
           c == add_to_node(Sub(nd, i), x, bit - 1, end)
       IN  IF c = ALL /\ Sub(nd, 1 - i) = ALL THEN ALL ELSE SetSub(nd, i, c)

\* add_to_node that stops one level below the one asked for.
add_to_node_Deeper(np, x, bit, end) ==
  IF np = ALL \/ bit < end THEN ALL
  ELSE LET nd == IF np = NONE THEN Node(NONE, NONE) ELSE np
           i == BitOf(x, bit)
           c == add_to_node(Sub(nd, i), x, bit - 1, end)
       IN  IF c = ALL /\ Sub(nd, 1 - i) = ALL THEN ALL ELSE SetSub(nd, i, c)

\* add_to_node without the return on ALL: a block that is already whole is
\* emptied and opened again.
add_to_node_OpenAll(np, x, bit, end) ==
  IF np = ALL /\ bit > end THEN add_to_node(NONE, x, bit, end)
  ELSE IF bit <= end THEN ALL
  ELSE LET nd == IF np = NONE THEN Node(NONE, NONE) ELSE np
           i == BitOf(x, bit)
           c == add_to_node(Sub(nd, i), x, bit - 1, end)
       IN  IF c = ALL /\ Sub(nd, 1 - i) = ALL THEN ALL ELSE SetSub(nd, i, c)

\* The value left in *np by add_to_node(np, a, bit, end): nd is the node
\* *np points to once a NONE has been replaced by a fresh node, c the value
\* the recursive call leaves in n->sub[i], with which the two children are
\* compared to ALL.
add_to_node(np, x, bit, end) ==
  IF np = ALL \/ bit <= end THEN ALL
  ELSE LET nd == IF np = NONE THEN Node(NONE, NONE) ELSE np
           i == BitOf(x, bit)
           c == add_to_node(Sub(nd, i), x, bit - 1, end)
       IN  IF c = ALL /\ Sub(nd, 1 - i) = ALL THEN ALL ELSE SetSub(nd, i, c)

\* The int 1 << bit converted to unsigned long for the | of dump_tree: for
\* bit = 31 the int is INT_MIN, whose conversion sets bits 31 and up.
OneShl(bit) == IF bit = 31 THEN 31 .. (ULONG_BITS - 1) ELSE {bit}

\* v >> sh & 0xff, as printed by %lu
Octet(v, sh) == Val(And(Shr(v, sh), ULong(255)))

\* One line of output: the four numbers of the dotted quad and the width.
Line(v, bit) ==
  [quad |-> <<Octet(v, 24), Octet(v, 16), Octet(v, 8), Octet(v, 0)>>,
   width |-> 31 - bit]

\* The marker left in the output when dump_tree calls abort().
ABORT == [abort |-> TRUE]

RECURSIVE dump_tree(_, _, _)

\* dump_tree that does not set the bit of the 1 branch in v.
dump_tree_NoBit(nd, v, bit) ==
  IF nd = NONE THEN <<>>
  ELSE IF nd = ALL THEN <<Line(v, bit)>>
  ELSE IF bit < 0 THEN <<ABORT>>
  ELSE dump_tree(Sub(nd, 0), v, bit - 1) \o dump_tree(Sub(nd, 1), v, bit - 1)

\* The lines printed by dump_tree(n, v, bit).
dump_tree(nd, v, bit) ==
  IF nd = NONE THEN <<>>
  ELSE IF nd = ALL THEN <<Line(v, bit)>>
  ELSE IF bit < 0 THEN <<ABORT>>
  ELSE dump_tree(Sub(nd, 0), v, bit - 1)
         \o dump_tree(Sub(nd, 1), Or(v, OneShl(bit)), bit - 1)

\* dump_output
dump_output(rt) == dump_tree(rt, {}, 31)

\* The root after save_one_addr(a).
save_one_addr(rt, x) == add_to_node(rt, x, 31, -1)

\* The shrinking loop taking one turn more than it needs.
Shrink_Further(x1, x2, m) ==
  LET turns == CHOOSE j \in 0 .. ULONG_BITS :
                 /\ ~Gt(Plus(x1, Shr(m, j)), x2)
                 /\ \A k \in 0 .. (j - 1) : Gt(Plus(x1, Shr(m, k)), x2)
  IN  Shr(m, turns + 1)

\* m after `while (a1+m > a2) m >>= 1;`: the loop shifts m until the test
\* fails, which it does at the latest when m is 0 (the loop is entered with
\* a1 <= a2).
Shrink(x1, x2, m) ==
  LET turns == CHOOSE j \in 0 .. ULONG_BITS :
                 /\ ~Gt(Plus(x1, Shr(m, j)), x2)
                 /\ \A k \in 0 .. (j - 1) : Gt(Plus(x1, Shr(m, k)), x2)
  IN  Shr(m, turns)

\* bit after `for (bit=-1,t=m;t;bit++,t>>=1) ;`: the loop shifts t until it
\* is 0 and counts the turns from -1.
BitLoop(m) ==
  LET turns == CHOOSE j \in 0 .. ULONG_BITS :
                 Shr(m, j) = {} /\ \A k \in 0 .. (j - 1) : Shr(m, k) # {}
  IN  -1 + turns

\* m of one iteration without the loop that shrinks it.
BlockMask_NoShrink(x1, x2) == And(Minus1(x1), Not(x1))

\* m and bit of one iteration of save_range's loop.
BlockMask(x1, x2) == Shrink(x1, x2, And(Minus1(x1), Not(x1)))
BlockBit(m) == BitLoop(m)

\* One turn of the loop that advances a1 by m instead of m+1.
RangeTurn_NoPlusOne(r) ==
  IF Le(r.a1, r.a2)
  THEN LET m == BlockMask(r.a1, r.a2)
       IN  [root |-> add_to_node(r.root, r.a1, 31, BlockBit(m)),
            a1 |-> Plus(r.a1, m),
            a2 |-> r.a2,
            turns |-> r.turns + 1]
  ELSE r

\* One turn of `while (a1 <= a2) { ... }` on the loop's state r (the root,
\* a1, a2 and the number of turns taken); a loop that has ended stays ended.
RangeTurn(r) ==
  IF Le(r.a1, r.a2)
  THEN LET m == BlockMask(r.a1, r.a2)
       IN  [root |-> add_to_node(r.root, r.a1, 31, BlockBit(m)),
            a1 |-> Plus(r.a1, Plus(m, ULong(1))),
            a2 |-> r.a2,
            turns |-> r.turns + 1]
  ELSE r

\* Turns of the loop the model follows; a loop still running after them is
\* reported by RangeEnds.
MaxTurns == 64

RECURSIVE RangeTurns(_, _)
\* k turns of the loop, as the first half of them followed by the rest.
RangeTurns(r, k) ==
  IF k = 0 THEN r
  ELSE IF k = 1 THEN RangeTurn(r)
  ELSE LET half == RangeTurns(r, k \div 2)
       IN  IF Gt(half.a1, half.a2) THEN half
           ELSE RangeTurns(half, k - (k \div 2))

\* The loop of save_range(a1, a2), run from the root rt.
RangeLoop(rt, x1, x2) ==
  RangeTurns([root |-> rt, a1 |-> x1, a2 |-> x2, turns |-> 0], MaxTurns)
RangeEnds(x1, x2) == LET r == RangeLoop(NONE, x1, x2) IN Gt(r.a1, r.a2)

\* save_range that takes a reversed range as the range between its ends.
save_range_Swapped(rt, x1, x2) ==
  IF Gt(x1, x2) THEN RangeLoop(rt, x2, x1).root ELSE RangeLoop(rt, x1, x2).root

\* The root after save_range(a1, a2); a reversed range prints a diagnostic
\* and returns.
save_range(rt, x1, x2) ==
  IF Gt(x1, x2) THEN rt ELSE RangeLoop(rt, x1, x2).root
RangeDiag(x1, x2) == IF Gt(x1, x2) THEN 1 ELSE 0

\* A mask that is one bit short: 0xffffffff << (33-n).
Mask_Short(w) == Shl(0 .. 31, 33 - w) \cap (0 .. 31)

\* 0xffffffff << (32-n), an unsigned int
Mask(w) == Shl(0 .. 31, 32 - w) \cap (0 .. 31)

\* The block address save_cidr passes on: n ? a & 0xffffffff & mask : 0
CidrBase(x, w) == IF w # 0 THEN And(And(x, 0 .. 31), Mask(w)) ELSE {}

\* save_cidr that adds the block one level too high in the tree.
save_cidr_OffByOne(rt, x, w) == add_to_node(rt, CidrBase(x, w), 31, 32 - w)

\* The root after save_cidr(a, n).
save_cidr(rt, x, w) == add_to_node(rt, CidrBase(x, w), 31, 31 - w)

-----------------------------------------------------------------------------
(* read_input *)

\* The calls of the save_ routines, as recorded in the history `saved`.
AddrCall(x) == [kind |-> "addr", a |-> x]
RangeCall(x1, x2) == [kind |-> "range", lo |-> x1, hi |-> x2]
CidrCall(x, w) == [kind |-> "cidr", a |-> x, w |-> w]

\* The program's state as one value: read_input's locals, the root, the
\* diagnostics printed, and whether abort() was called.
Machine ==
  [state |-> state, n |-> n, a |-> a, a1 |-> a1, line |-> line, root |-> root,
   stderr |-> stderr, saved |-> saved, aborted |-> FALSE]

\* fprintf(stderr, ...)
Diag(m) == [m EXCEPT !.stderr = @ + 1]
\* abort()
Abort(m) == [m EXCEPT !.aborted = TRUE]
\* (a << 8) | n
Push(m) == Or(Shl(m.a, 8), ULong(m.n))

\* save_one_addr(x), save_range(x1, x2) and save_cidr(x, w) called from
\* read_input.
CallSaveOneAddr(m, x) ==
  [m EXCEPT !.root = save_one_addr(@, x), !.saved = @ \cup {AddrCall(x)}]
CallSaveRange(m, x1, x2) ==
  [m EXCEPT !.root = save_range(@, x1, x2),
            !.stderr = @ + RangeDiag(x1, x2),
            !.saved = @ \cup {RangeCall(x1, x2)}]
CallSaveCidr(m, x, w) ==
  [m EXCEPT !.root = save_cidr(@, x, w), !.saved = @ \cup {CidrCall(x, w)}]

\* The bytes of the input, by the case of `switch (c)` that takes them.
DigitBytes == 48 .. 57
DotByte == 46
DashByte == 45
SlashByte == 47
NewlineByte == 10
SpaceBytes == {10, 32, 9, 13}
SyntaxBytes == DigitBytes \cup {DotByte, DashByte, SlashByte} \cup SpaceBytes

\* The accumulation of an octet without the test against 255.
Accumulate_NoLimit(m, c) ==
  IF m.n < 0 THEN m ELSE [m EXCEPT !.n = (m.n * 10) + (c - 48)]

\* The body shared by the digit cases 2, 4, 6, 8, 11, 13, 15 and 17.
Accumulate(m, c) ==
  IF m.n < 0 THEN m
  ELSE LET k == (m.n * 10) + (c - 48)
       IN  IF k > 255 THEN [Diag(m) EXCEPT !.n = -1] ELSE [m EXCEPT !.n = k]

\* The digit case of state 9 without the test of the error latch.
DigitAfterQuad_NoLatch(m, c) ==
  [CallSaveOneAddr(m, m.a) EXCEPT !.n = c - 48, !.state = 2]

\* case 9 of the digit switch
DigitAfterQuad(m, c) ==
  IF m.n >= 0
  THEN [CallSaveOneAddr(m, m.a) EXCEPT !.n = c - 48, !.state = 2]
  ELSE [m EXCEPT !.state = 2]

\* case '0' ... '9'
OnDigit(m, c) ==
  CASE m.state = 1 -> [m EXCEPT !.n = c - 48, !.state = 2]
    [] m.state \in {3, 5, 7, 12, 14, 16} ->
         Accumulate([m EXCEPT !.state = @ + 1], c)
    [] m.state \in {2, 4, 6, 8, 11, 13, 15, 17} -> Accumulate(m, c)
    [] m.state = 9 -> DigitAfterQuad(m, c)
    [] m.state \in {10, 18} ->
         [m EXCEPT !.n = IF @ >= 0 THEN c - 48 ELSE @, !.state = @ + 1]
    [] m.state = 19 ->
         IF m.n < 0 THEN m
         ELSE LET k == (m.n * 10) + (c - 48)
              IN  IF k > 32 THEN [Diag(m) EXCEPT !.n = -1]
                  ELSE [m EXCEPT !.n = k]
    [] OTHER -> Abort(m)

\* case '.'
OnDot(m) ==
  CASE m.state \in {1, 3, 5, 7, 8, 10, 12, 14} \cup (16 .. 19) ->
         [(IF m.n >= 0 THEN Diag(m) ELSE m) EXCEPT !.n = -1]
    [] m.state \in {2, 11, 4, 6, 13, 15} ->
         LET z == IF m.state \in {2, 11} THEN [m EXCEPT !.a = {}] ELSE m
         IN  IF z.n >= 0
             THEN [z EXCEPT !.a = Push(z), !.n = 0, !.state = @ + 1]
             ELSE [z EXCEPT !.state = @ + 1]
    [] m.state = 9 ->
         [(IF m.n >= 0 THEN Diag(CallSaveOneAddr(m, m.a)) ELSE m)
            EXCEPT !.n = -1]
    [] OTHER -> Abort(m)

\* case '-'
OnDash(m) ==
  CASE m.state \in (1 .. 7) \cup (10 .. 19) -> [Diag(m) EXCEPT !.n = -1]
    [] m.state = 8 ->
         [m EXCEPT !.a1 = IF m.n >= 0 THEN Push(m) ELSE @, !.state = 10]
    [] m.state = 9 -> [m EXCEPT !.a1 = m.a, !.state = 10]
    [] OTHER -> Abort(m)

\* case '/'
OnSlash(m) ==
  CASE m.state \in (1 .. 7) \cup (10 .. 19) -> [Diag(m) EXCEPT !.n = -1]
    [] m.state = 8 ->
         [m EXCEPT !.a = IF m.n >= 0 THEN Push(m) ELSE @, !.state = 18]
    [] m.state = 9 -> [m EXCEPT !.state = 18]
    [] OTHER -> Abort(m)

\* case '\n' (which counts the line) and case ' ', '\t', '\r'
OnSpace(m, c) ==
  LET l == IF c = NewlineByte THEN [m EXCEPT !.line = @ + 1] ELSE m
  IN  CASE l.state \in {1, 9, 10, 18} -> l
        [] l.state \in (2 .. 7) \cup (11 .. 16) ->
             [(IF l.n >= 0 THEN Diag(l) ELSE l) EXCEPT !.state = 1]
        [] l.state = 8 ->
             [l EXCEPT !.a = IF l.n >= 0 THEN Push(l) ELSE @, !.state = 9]
        [] l.state = 17 ->
             [(IF l.n >= 0 THEN CallSaveRange(l, l.a1, Push(l)) ELSE l)
                EXCEPT !.state = 1]
        [] l.state = 19 ->
             [(IF l.n >= 0 THEN CallSaveCidr(l, l.a, l.n) ELSE l)
                EXCEPT !.state = 1]
        [] OTHER -> Abort(l)

\* default: of switch (c)
OnOther(m, c) == [Diag(m) EXCEPT !.n = -1, !.state = 2]

\* One turn of the loop of read_input on the byte c.
Feed(m, c) ==
  CASE c \in DigitBytes -> OnDigit(m, c)
    [] c = DotByte -> OnDot(m)
    [] c = DashByte -> OnDash(m)
    [] c = SlashByte -> OnSlash(m)
    [] c \in SpaceBytes -> OnSpace(m, c)
    [] OTHER -> OnOther(m, c)

\* The switch (state) that follows the loop, at EOF.
OnEof(m) ==
  CASE m.state = 1 -> m
    [] m.state \in (2 .. 7) \cup (10 .. 16) -> IF m.n >= 0 THEN Diag(m) ELSE m
    [] m.state = 8 -> IF m.n >= 0 THEN CallSaveOneAddr(m, Push(m)) ELSE m
    [] m.state = 9 -> IF m.n >= 0 THEN CallSaveOneAddr(m, m.a) ELSE m
    [] m.state = 17 ->
         IF m.n >= 0 THEN CallSaveRange(m, m.a1, Push(m)) ELSE m
    [] OTHER -> Abort(m)

RECURSIVE FeedAll(_, _)
\* The loop of read_input over the bytes s, as its turns on the first half
\* of s followed by its turns on the rest; abort() ends the loop.
FeedAll(m, s) ==
  IF s = <<>> \/ m.aborted THEN m
  ELSE IF Len(s) = 1 THEN Feed(m, s[1])
  ELSE LET h == Len(s) \div 2
           first == FeedAll(m, SubSeq(s, 1, h))
       IN  IF first.aborted THEN first
           ELSE FeedAll(first, SubSeq(s, h + 1, Len(s)))

\* The locals of read_input as it starts, under main's root = NONE.  a and
\* a1 start unset; u stands for the value they happen to hold.
Start(u) ==
  [state |-> 1, n |-> 0, a |-> u, a1 |-> u, line |-> 1, root |-> NONE,
   stderr |-> 0, saved |-> {}, aborted |-> FALSE]

\* main on the whole input s: what it prints, and whether it called abort()
\* (in read_input or in dump_tree) instead of exit(0).
Outcome(m) ==
  IF m.aborted THEN [stdout |-> <<>>, pc |-> "abort"]
  ELSE LET o == dump_output(m.root)
       IN  IF \E i \in 1 .. Len(o) : o[i] = ABORT
           THEN [stdout |-> SubSeq(o, 1, (CHOOSE i \in 1 .. Len(o) : o[i] = ABORT) - 1),
                 pc |-> "abort"]
           ELSE [stdout |-> o, pc |-> "exit"]
main(s) == Outcome(OnEof(FeedAll(Start({}), s)))

-----------------------------------------------------------------------------
(* The tree as NODEs in memory *)

\* NONE and ALL as pointers: the addresses of the static NODEs none and all.
\* A malloc'ed NODE has the address 1, 2, ... in the order of allocation; no
\* address is given out twice, so that the use of a freed NODE is seen.
AddrNone == 0
AddrAll == -1

\* No save_range is running.
NoLoop == [on |-> FALSE]

\* The memory when read_input starts: root is NONE and no NODE is
\* allocated.  cells[p] holds p->sub[0] and p->sub[1]; freed holds the NODEs
\* given to free(); fault tells whether a freed NODE was read, written or
\* freed again; stack holds the calls of add_to_node and free_tree that have
\* not returned, the innermost last; loop holds a1 and a2 of a save_range
\* that has not returned.
NoHeap ==
  [root |-> AddrNone, cells |-> <<>>, freed |-> {}, fault |-> FALSE,
   stack |-> <<>>, loop |-> NoLoop]

\* A place that holds a pointer, as the NODE ** of add_to_node: <<0, 0>> is
\* &root, <<p, i>> is &p->sub[i].
RootSlot == <<0, 0>>
\* The NODE that holds the place np is read or written.
Touch(H, np) ==
  IF np = RootSlot THEN H ELSE [H EXCEPT !.fault = @ \/ np[1] \in H.freed]
\* *np
Load(H, np) == IF np = RootSlot THEN H.root ELSE H.cells[np[1]][np[2] + 1]
\* *np = q
Store(H, np, q) ==
  IF np = RootSlot THEN [H EXCEPT !.root = q]
  ELSE [Touch(H, np) EXCEPT !.cells[np[1]][np[2] + 1] = q]

\* n = malloc(sizeof(NODE)); n->sub[0] = NONE; n->sub[1] = NONE;
malloc(H) == [H EXCEPT !.cells = Append(@, <<AddrNone, AddrNone>>)]
\* free(p)
free(H, p) == [H EXCEPT !.fault = @ \/ p \in H.freed, !.freed = @ \cup {p}]

\* A call of add_to_node(np, a, bit, end) and a call of free_tree(n): `at`
\* is the place the call has reached and n its local n.
AddFrame(np, x, bit, end) ==
  [fn |-> "add_to_node", at |-> "enter", np |-> np, a |-> x, bit |-> bit,
   end |-> end, n |-> AddrNone]
FreeFrame(p) ==
  [fn |-> "free_tree", at |-> "enter", np |-> RootSlot, a |-> {}, bit |-> 0,
   end |-> 0, n |-> p]

\* The innermost call, a call made, the innermost call returning, and the
\* innermost call moving on to the place `at` with n = p.
Top(H) == H.stack[Len(H.stack)]
CallFrame(H, f) == [H EXCEPT !.stack = Append(@, f)]
Return(H) == [H EXCEPT !.stack = SubSeq(@, 1, Len(@) - 1)]
MoveTo(H, at, p) == [H EXCEPT !.stack[Len(H.stack)].at = at,
                              !.stack[Len(H.stack)].n = p]

\* free_tree from its entry to its first call: return on NONE and ALL, else
\* free_tree(n->sub[0]).
FreeTreeFirst(H) ==
  LET f == Top(H)
  IN  IF f.n = AddrNone \/ f.n = AddrAll THEN Return(H)
      ELSE CallFrame(MoveTo(Touch(H, <<f.n, 0>>), "second", f.n),
                     FreeFrame(H.cells[f.n][1]))

\* free_tree that does not go down the 1 side.
FreeTreeSecond_Skip(H) == MoveTo(H, "free", Top(H).n)

\* free_tree(n->sub[1])
FreeTreeSecond(H) ==
  LET f == Top(H)
  IN  CallFrame(MoveTo(Touch(H, <<f.n, 1>>), "free", f.n),
                FreeFrame(H.cells[f.n][2]))

\* free(n) and the return of free_tree
FreeTreeFree(H) == Return(free(H, Top(H).n))

\* add_to_node from its entry to its return or its first call: the return
\* on ALL; at bit <= end the call of free_tree, or else *np = ALL and the
\* return; the malloc of a NODE for a NONE and the recursive call.
AddToNodeFirst(H) ==
  LET f == Top(H)
      H0 == Touch(H, f.np)
      nn == Load(H, f.np)
  IN  IF nn = AddrAll THEN Return(H0)
      ELSE IF f.bit <= f.end
      THEN IF nn # AddrNone
           THEN CallFrame(MoveTo(H0, "mark", nn), FreeFrame(nn))
           ELSE Return(Store(H0, f.np, AddrAll))
      ELSE LET p == IF nn = AddrNone THEN Len(H.cells) + 1 ELSE nn
               H1 == IF nn = AddrNone THEN Store(malloc(H0), f.np, p) ELSE H0
           IN  CallFrame(MoveTo(H1, "check", p),
                         AddFrame(<<p, BitOf(f.a, f.bit)>>, f.a, f.bit - 1,
                                  f.end))

\* *np = ALL; return; after free_tree(n)
AddToNodeMark(H) == Return(Store(H, Top(H).np, AddrAll))

\* After the recursive call: if both n->sub are ALL, free(n); *np = ALL.
AddToNodeCheck(H) ==
  LET f == Top(H)
      H0 == Touch(H, <<f.n, 0>>)
  IN  IF H0.cells[f.n][1] = AddrAll /\ H0.cells[f.n][2] = AddrAll
      THEN Return(Store(free(H0, f.n), f.np, AddrAll))
      ELSE Return(H0)

\* The root after the save_ call u, and the memory when the call is made:
\* save_one_addr and save_cidr call add_to_node, save_range enters its loop
\* unless the range is reversed.
SaveCall(rt, u) ==
  CASE u.kind = "addr" -> save_one_addr(rt, u.a)
    [] u.kind = "range" -> save_range(rt, u.lo, u.hi)
    [] u.kind = "cidr" -> save_cidr(rt, u.a, u.w)
EnterCall(H, u) ==
  CASE u.kind = "addr" -> CallFrame(H, AddFrame(RootSlot, u.a, 31, -1))
    [] u.kind = "range" ->
         IF Gt(u.lo, u.hi) THEN H
         ELSE [H EXCEPT !.loop = [on |-> TRUE, a1 |-> u.lo, a2 |-> u.hi]]
    [] u.kind = "cidr" ->
         CallFrame(H, AddFrame(RootSlot, CidrBase(u.a, u.w), 31, 31 - u.w))

\* One turn of the loop of save_range up to its call of add_to_node.
LoopTurn(H) ==
  LET m == BlockMask(H.loop.a1, H.loop.a2)
  IN  CallFrame([H EXCEPT !.loop.a1 = Plus(@, Plus(m, ULong(1)))],
                AddFrame(RootSlot, H.loop.a1, 31, BlockBit(m)))

-----------------------------------------------------------------------------
(* The program as a state machine *)

\* Bounds of the model.
MaxTyped == 6      \* chunks written to standard input in Spec
MaxUnits == 2      \* units written to standard input in SpecUnits
MaxSaved == 2      \* distinct save_ calls in SpecTrie
MaxDiags == 2      \* diagnostics of reversed ranges in SpecTrie

\* The values a and a1 may hold before read_input first assigns them.
Unset == {{}, 0 .. 31}

\* save_range is not running.
NoRange == [running |-> FALSE]

Init ==
  /\ root = NONE
  /\ state = 1 /\ n = 0 /\ line = 1
  /\ \E u \in Unset : a = u /\ a1 = u
  /\ stdin = <<>> /\ pc = "read"
  /\ stdout = <<>> /\ stderr = 0
  /\ saved = {} /\ typed = 0 /\ units = <<>>
  /\ heap = NoHeap
  /\ rng = NoRange

\* The state after read_input's loop has gone from Machine to m.
Become(m) ==
  /\ state' = m.state /\ n' = m.n /\ a' = m.a /\ a1' = m.a1 /\ line' = m.line
  /\ root' = m.root /\ stderr' = m.stderr /\ saved' = m.saved
  /\ pc' = IF m.aborted THEN "abort" ELSE "read"

\* getchar() returns the next byte of standard input and the switch (c)
\* handles it.
Read ==
  /\ Become(Feed(Machine, Head(stdin)))
  /\ stdin' = Tail(stdin)
  /\ UNCHANGED <<stdout, typed, units, rng, heap>>

\* The next byte is one of `which`.
Next_c(which) == pc = "read" /\ stdin # <<>> /\ Head(stdin) \in which

\* One action per case of switch (c).
Digit == /\ Next_c(DigitBytes)
         /\ Read
Dot == /\ Next_c({DotByte})
       /\ Read
Dash == /\ Next_c({DashByte})
        /\ Read
Slash == /\ Next_c({SlashByte})
         /\ Read
Space == /\ Next_c(SpaceBytes)
         /\ Read
Other == /\ Next_c((0 .. 255) \ SyntaxBytes)
         /\ Read

\* getchar() returns EOF: the switch after the loop, then dump_output and
\* exit(0), unless abort() ends the program first.
Eof ==
  /\ pc = "read" /\ stdin = <<>>
  /\ LET m == OnEof(Machine)
         o == Outcome(m)
     IN  /\ state' = m.state /\ n' = m.n /\ a' = m.a /\ a1' = m.a1
         /\ line' = m.line /\ root' = m.root /\ stderr' = m.stderr
         /\ saved' = m.saved
         /\ stdout' = o.stdout /\ pc' = o.pc
  /\ UNCHANGED <<stdin, typed, units, rng, heap>>

-----------------------------------------------------------------------------
(* Standard input *)

\* What is written to standard input in one piece in Spec: each of the
\* digits 0 and 3, the three punctuation bytes, a newline, a byte that is no
\* syntax, and the dotted quads 0.0.0.0 and 255.255.255.255.
Keys ==
  {<<48>>, <<51>>, <<DotByte>>, <<DashByte>>, <<SlashByte>>, <<NewlineByte>>,
   <<120>>,
   <<48, 46, 48, 46, 48, 46, 48>>,
   <<50, 53, 53, 46, 50, 53, 53, 46, 50, 53, 53, 46, 50, 53, 53>>}

\* Some process writes the bytes k to the program's standard input.
Type ==
  /\ pc = "read" /\ stdin = <<>> /\ typed < MaxTyped
  /\ \E k \in Keys : stdin' = k
  /\ typed' = typed + 1
  /\ UNCHANGED <<root, state, n, a, a1, line, pc, stdout, stderr, saved,
                 units, rng, heap>>

Next == Type \/ Digit \/ Dot \/ Dash \/ Slash \/ Space \/ Other \/ Eof

Spec == Init /\ [][Next]_vars

-----------------------------------------------------------------------------
(* The tree under direct calls of the save_ routines *)

\* The addresses, range bounds, block addresses and widths of the calls.
AddrPool == {Quad(0, 0, 0, 0), Quad(0, 0, 0, 1), Quad(255, 255, 255, 255)}
LoPool == {Quad(0, 0, 0, 1), Quad(0, 0, 0, 2)}
HiPool == {Quad(0, 0, 0, 1), Quad(0, 0, 0, 2), Quad(255, 255, 255, 255)}
BasePool == {Quad(0, 0, 0, 2), Quad(255, 255, 255, 255)}
WidthPool == {0, 1, 31, 32}

\* The history `saved` has room for the call u.
Fits(u) == u \in saved \/ Cardinality(saved) < MaxSaved

\* The state after a save_ routine was called from the state Machine.
Called(m) ==
  /\ root' = m.root /\ stderr' = m.stderr /\ saved' = m.saved
  /\ UNCHANGED <<state, n, a, a1, line, stdin, pc, stdout, typed, units, rng,
                 heap>>

SaveOneAddr ==
  /\ pc = "read"
  /\ \E x \in AddrPool :
       Fits(AddrCall(x)) /\ Called(CallSaveOneAddr(Machine, x))

SaveRange ==
  /\ pc = "read"
  /\ \E x1 \in LoPool, x2 \in HiPool :
       /\ Fits(RangeCall(x1, x2))
       /\ stderr + RangeDiag(x1, x2) <= MaxDiags
       /\ Called(CallSaveRange(Machine, x1, x2))

SaveCidr ==
  /\ pc = "read"
  /\ \E x \in BasePool, w \in WidthPool :
       Fits(CidrCall(x, w)) /\ Called(CallSaveCidr(Machine, x, w))

\* dump_output, then exit(0) or the abort() of dump_tree.
DumpOutput ==
  /\ pc = "read"
  /\ LET o == Outcome(Machine) IN stdout' = o.stdout /\ pc' = o.pc
  /\ UNCHANGED <<root, state, n, a, a1, line, stdin, stderr, saved, typed,
                 units, rng, heap>>

NextTrie == SaveOneAddr \/ SaveRange \/ SaveCidr \/ DumpOutput

SpecTrie == Init /\ [][NextTrie]_vars

-----------------------------------------------------------------------------
(* Standard input made of whole units *)

\* %d and %lu: the decimal digits of k < 1000
Dec(k) ==
  IF k < 10 THEN <<48 + k>>
  ELSE IF k < 100 THEN <<48 + (k \div 10), 48 + (k % 10)>>
  ELSE <<48 + (k \div 100), 48 + ((k \div 10) % 10), 48 + (k % 10)>>

\* The text of a dotted quad, and of a unit of each form.
QuadText(q) ==
  Dec(q[1]) \o <<DotByte>> \o Dec(q[2]) \o <<DotByte>> \o Dec(q[3])
    \o <<DotByte>> \o Dec(q[4])
AddrUnit(q) == [form |-> "addr", text |-> QuadText(q), q |-> q]
RangeUnit(q1, q2) ==
  [form |-> "range",
   text |-> QuadText(q1) \o <<32, DashByte, 32>> \o QuadText(q2),
   q |-> q1, q2 |-> q2]
CidrUnit(q, w) ==
  [form |-> "cidr", text |-> QuadText(q) \o <<SlashByte>> \o Dec(w),
   q |-> q, w |-> w]
JunkUnit(t) == [form |-> "junk", text |-> t]

\* z digits 0
Zeros(z) == [i \in 1 .. z |-> 48]
\* An address and a block whose last number is written with z zeros before
\* its digits.
AddrUnitPadded(q, z) ==
  [form |-> "addr",
   text |-> Dec(q[1]) \o <<DotByte>> \o Dec(q[2]) \o <<DotByte>> \o Dec(q[3])
              \o <<DotByte>> \o Zeros(z) \o Dec(q[4]),
   q |-> q]
CidrUnitPadded(q, w, z) ==
  [form |-> "cidr",
   text |-> QuadText(q) \o <<SlashByte>> \o Zeros(z) \o Dec(w),
   q |-> q, w |-> w]

\* A unit is well formed when its numbers are in range.
InRange(q) == \A i \in 1 .. 4 : q[i] <= 255
WellFormed(u) ==
  CASE u.form = "addr" -> InRange(u.q)
    [] u.form = "range" -> InRange(u.q) /\ InRange(u.q2)
    [] u.form = "cidr" -> InRange(u.q) /\ u.w <= 32
    [] OTHER -> FALSE

\* The save_ call a well-formed unit stands for.
QuadOf(q) == Quad(q[1], q[2], q[3], q[4])
Meaning(u) ==
  CASE u.form = "addr" -> AddrCall(QuadOf(u.q))
    [] u.form = "range" -> RangeCall(QuadOf(u.q), QuadOf(u.q2))
    [] u.form = "cidr" -> CidrCall(QuadOf(u.q), u.w)

\* The units written to standard input in SpecUnits.
UnitPool ==
  {AddrUnit(<<10, 0, 0, 1>>), AddrUnit(<<10, 0, 0, 256>>),
   CidrUnit(<<10, 0, 0, 0>>, 31), CidrUnit(<<10, 0, 0, 0>>, 33),
   RangeUnit(<<10, 0, 0, 1>>, <<10, 0, 0, 2>>),
   RangeUnit(<<10, 0, 0, 1>>, <<10, 0, 0, 256>>),
   AddrUnitPadded(<<10, 0, 0, 1>>, 3), CidrUnitPadded(<<10, 0, 0, 0>>, 31, 1),
   JunkUnit(<<120>>)}

\* Some process writes the unit u and a newline to standard input.
TypeUnit ==
  /\ pc = "read" /\ stdin = <<>> /\ Len(units) < MaxUnits
  /\ \E u \in UnitPool :
       /\ stdin' = u.text \o <<NewlineByte>>
       /\ units' = Append(units, u)
  /\ UNCHANGED <<root, state, n, a, a1, line, pc, stdout, stderr, saved,
                 typed, rng, heap>>

NextUnits ==
  TypeUnit \/ Digit \/ Dot \/ Dash \/ Slash \/ Space \/ Other \/ Eof

SpecUnits == Init /\ [][NextUnits]_vars

-----------------------------------------------------------------------------
(* Standard input made of lines *)

\* Bound: lines written to standard input in SpecLines.
MaxLines == 2

\* The lines written to standard input in SpecLines: the units of SpecUnits
\* and lines that are no unit, a lone slash, a slash with a width and a lone
\* dash.
LinePool ==
  UnitPool \cup {JunkUnit(<<SlashByte>>), JunkUnit(<<SlashByte, 50, 52>>),
                 JunkUnit(<<DashByte>>)}

\* Some process writes the line u and a newline to standard input.
TypeLine ==
  /\ pc = "read" /\ stdin = <<>> /\ Len(units) < MaxLines
  /\ \E u \in LinePool :
       /\ stdin' = u.text \o <<NewlineByte>>
       /\ units' = Append(units, u)
  /\ UNCHANGED <<root, state, n, a, a1, line, pc, stdout, stderr, saved,
                 typed, rng, heap>>

NextLines ==
  TypeLine \/ Digit \/ Dot \/ Dash \/ Slash \/ Space \/ Other \/ Eof

SpecLines == Init /\ [][NextLines]_vars

-----------------------------------------------------------------------------
(* save_range, one turn of its loop at a time *)

\* Bound: calls of save_range in SpecRange.
MaxRanges == 1

\* The bounds of the ranges saved in SpecRange.
RangeLoPool ==
  {Quad(0, 0, 0, 0), Quad(0, 0, 0, 1), Quad(10, 0, 0, 3),
   Quad(255, 255, 255, 255)}
RangeHiPool ==
  {Quad(0, 0, 0, 0), Quad(10, 0, 0, 8), Quad(255, 255, 255, 254),
   Quad(255, 255, 255, 255)}

\* save_range(x1, x2) is called: a reversed range prints its diagnostic and
\* returns, any other enters the loop.
RangeEnter ==
  /\ pc = "read" /\ ~rng.running
  /\ Cardinality(saved) < MaxRanges
  /\ \E x1 \in RangeLoPool, x2 \in RangeHiPool :
       /\ RangeCall(x1, x2) \notin saved
       /\ saved' = saved \cup {RangeCall(x1, x2)}
       /\ stderr' = stderr + RangeDiag(x1, x2)
       /\ rng' = IF Gt(x1, x2) THEN NoRange
                 ELSE [running |-> TRUE, lo |-> x1, a1 |-> x1, a2 |-> x2,
                       blocks |-> <<>>]
  /\ UNCHANGED <<root, state, n, a, a1, line, stdin, pc, stdout, typed, units,
                 heap>>

\* One turn of `while (a1 <= a2)`: the block at a1 is added to the tree and
\* a1 moves past it.  The history keeps the block's address, m and bit.
RangeIter ==
  /\ rng.running /\ Le(rng.a1, rng.a2)
  /\ Len(rng.blocks) < MaxTurns
  /\ LET r == RangeTurn([root |-> root, a1 |-> rng.a1, a2 |-> rng.a2,
                         turns |-> Len(rng.blocks)])
         m == BlockMask(rng.a1, rng.a2)
     IN  /\ root' = r.root
         /\ rng' = [rng EXCEPT
                      !.a1 = r.a1,
                      !.blocks = Append(@, [at |-> rng.a1, m |-> m,
                                            bit |-> BlockBit(m)])]
  /\ UNCHANGED <<state, n, a, a1, line, stdin, pc, stdout, stderr, saved,
                 typed, units, heap>>

\* The test a1 <= a2 fails and save_range returns.
RangeReturn ==
  /\ rng.running /\ Gt(rng.a1, rng.a2)
  /\ rng' = NoRange
  /\ UNCHANGED <<root, state, n, a, a1, line, stdin, pc, stdout, stderr,
                 saved, typed, units, heap>>

NextRange == RangeEnter \/ RangeIter \/ RangeReturn

SpecRange == Init /\ [][NextRange]_vars

-----------------------------------------------------------------------------
(* The save_ routines with the memory they use, call by call *)

\* Bound: calls of the save_ routines in SpecHeap.
MaxHeapCalls == 3

\* The calls made in SpecHeap: addresses next to each other, which collapse,
\* and blocks and a range that subsume them.
HeapAddrPool == {Quad(0, 0, 0, 0), Quad(0, 0, 0, 1), Quad(0, 0, 0, 2)}
HeapRangePool == {<<Quad(0, 0, 0, 1), Quad(0, 0, 0, 2)>>}
HeapCidrPool == {<<Quad(0, 0, 0, 3), 30>>, <<Quad(0, 0, 0, 0), 0>>}

\* No call is running.
Idle(H) == H.stack = <<>> /\ ~H.loop.on

\* The memory goes from heap to H and nothing else changes.
HeapStep(H) ==
  /\ heap' = H
  /\ UNCHANGED <<root, state, n, a, a1, line, stdin, pc, stdout, stderr,
                 saved, typed, units, rng>>

\* The innermost call is one of fn and has reached the place at.
Running(fn, at) ==
  /\ heap.stack # <<>>
  /\ Top(heap).fn = fn /\ Top(heap).at = at

\* The save_ call u is made: the root as a value is the one u leaves, the
\* memory follows step by step.
HeapCalled(u) ==
  /\ pc = "read"
  /\ u \notin saved /\ Cardinality(saved) < MaxHeapCalls
  /\ root' = SaveCall(root, u)
  /\ heap' = EnterCall(heap, u)
  /\ saved' = saved \cup {u}
  /\ UNCHANGED <<state, n, a, a1, line, stdin, pc, stdout, stderr, typed,
                 units, rng>>

HeapSaveOneAddr ==
  /\ Idle(heap)
  /\ \E x \in HeapAddrPool : HeapCalled(AddrCall(x))
HeapSaveRange ==
  /\ Idle(heap)
  /\ \E P \in HeapRangePool : HeapCalled(RangeCall(P[1], P[2]))
HeapSaveCidr ==
  /\ Idle(heap)
  /\ \E P \in HeapCidrPool : HeapCalled(CidrCall(P[1], P[2]))

\* while (a1 <= a2): one more turn, or the return of save_range.
HeapRangeTurn ==
  /\ heap.stack = <<>> /\ heap.loop.on /\ Le(heap.loop.a1, heap.loop.a2)
  /\ HeapStep(LoopTurn(heap))
HeapRangeReturn ==
  /\ heap.stack = <<>> /\ heap.loop.on /\ Gt(heap.loop.a1, heap.loop.a2)
  /\ HeapStep([heap EXCEPT !.loop = NoLoop])

\* The steps of add_to_node and of free_tree.
AddFirst == /\ Running("add_to_node", "enter")
            /\ HeapStep(AddToNodeFirst(heap))
AddMark == /\ Running("add_to_node", "mark")
           /\ HeapStep(AddToNodeMark(heap))
AddCheck == /\ Running("add_to_node", "check")
            /\ HeapStep(AddToNodeCheck(heap))
FreeFirst == /\ Running("free_tree", "enter")
             /\ HeapStep(FreeTreeFirst(heap))
FreeSecond == /\ Running("free_tree", "second")
              /\ HeapStep(FreeTreeSecond(heap))
FreeFree == /\ Running("free_tree", "free")
            /\ HeapStep(FreeTreeFree(heap))

NextHeap ==
  \/ HeapSaveOneAddr \/ HeapSaveRange \/ HeapSaveCidr
  \/ HeapRangeTurn \/ HeapRangeReturn
  \/ AddFirst \/ AddMark \/ AddCheck
  \/ FreeFirst \/ FreeSecond \/ FreeFree

SpecHeap == Init /\ [][NextHeap]_vars

-----------------------------------------------------------------------------
(* Address sets of units and of output lines *)

\* The address a line of output names.
LineAddr(l) == Quad(l.quad[1], l.quad[2], l.quad[3], l.quad[4])

\* p is an address of the prefix of width w that holds x: a 32-bit value
\* that agrees with x on its top w bits.
InPrefix(p, x, w) ==
  p \subseteq 0 .. 31 /\ \A i \in (32 - w) .. 31 : (i \in p) <=> (i \in x)

\* First and last address of a prefix.
PrefixFirst(x, w) == (x \cap (0 .. 31)) \ (0 .. (31 - w))
PrefixLast(x, w) == (x \cap (0 .. 31)) \cup (0 .. (31 - w))

\* p is an address of the line l, and the line's first and last address.
InLine(p, l) == InPrefix(p, LineAddr(l), l.width)
LineFirst(l) == PrefixFirst(LineAddr(l), l.width)
LineLast(l) == PrefixLast(LineAddr(l), l.width)

\* p is an address of the unit committed by the call u (a reversed range
\* has no addresses), and the unit's first and last address.
InCall(p, u) ==
  CASE u.kind = "addr" -> p = u.a
    [] u.kind = "range" -> Le(u.lo, p) /\ Le(p, u.hi)
    [] u.kind = "cidr" -> InPrefix(p, u.a, u.w)
CallFirst(u) ==
  CASE u.kind = "addr" -> u.a
    [] u.kind = "range" -> u.lo
    [] u.kind = "cidr" -> PrefixFirst(u.a, u.w)
CallLast(u) ==
  CASE u.kind = "addr" -> u.a
    [] u.kind = "range" -> u.hi
    [] u.kind = "cidr" -> PrefixLast(u.a, u.w)

\* The address after x.
Succ(x) == Plus(x, ULong(1))

\* The lines printed, and membership in the union of the committed units
\* and in the union of the printed lines.
Emitted == {stdout[i] : i \in 1 .. Len(stdout)}
InUnion(p) == \E u \in saved : InCall(p, u)
InOutput(p) == \E l \in Emitted : InLine(p, l)

-----------------------------------------------------------------------------
(* Properties of the tree, under SpecTrie *)

RECURSIVE Canonical(_)
\* No node under nd has two ALL children.
Canonical(nd) ==
  nd.kind = "NODE" =>
    /\ ~(Sub(nd, 0) = ALL /\ Sub(nd, 1) = ALL)
    /\ Canonical(Sub(nd, 0))
    /\ Canonical(Sub(nd, 1))

\* Two lines of equal width w >= 1 whose addresses differ in exactly the
\* last bit of the prefix.
Buddies(l, k) ==
  /\ l.width = k.width /\ l.width >= 1
  /\ (LineAddr(l) \ LineAddr(k)) \cup (LineAddr(k) \ LineAddr(l))
       = {32 - l.width}

\* C1: after any sequence of save_one_addr, save_range and save_cidr calls
\* no node of the tree has both children ALL, and no two lines of the
\* output are buddies.
C1_Minimal ==
  /\ Canonical(root)
  /\ pc = "exit" =>
       \A i, j \in 1 .. Len(stdout) : ~Buddies(stdout[i], stdout[j])

\* The two buddy addresses 0.0.0.0 and 0.0.0.1 were saved one by one and
\* the output names them as the one line 0.0.0.0/31.
C1_Witness ==
  /\ pc = "exit"
  /\ saved = {AddrCall(Quad(0, 0, 0, 0)), AddrCall(Quad(0, 0, 0, 1))}
  /\ stdout = <<[quad |-> <<0, 0, 0, 0>>, width |-> 31]>>
  /\ root.kind = "NODE"

\* C2: every address of every printed line is an address of some committed
\* unit.  A line is an interval of addresses and so is every unit, hence the
\* line lies in the union of the units when its first address does and so
\* does every address of the line that follows the last address of a unit.
C2_Sound ==
  pc = "exit" =>
    \A l \in Emitted :
      \A p \in {LineFirst(l)} \cup {Succ(CallLast(u)) : u \in saved} :
        InLine(p, l) => InUnion(p)

\* Output of more than one line after a range that is no single block and
\* a prefix were saved.
C2_Witness ==
  /\ pc = "exit"
  /\ Len(stdout) >= 2
  /\ RangeCall(Quad(0, 0, 0, 1), Quad(0, 0, 0, 2)) \in saved
  /\ \E u \in saved : u.kind = "cidr"

\* The intervals of two lines have no address in common.
Disjoint(l, k) ==
  Gt(LineFirst(l), LineLast(k)) \/ Gt(LineFirst(k), LineLast(l))

\* C3: the printed lines are pairwise disjoint and every address of every
\* committed unit is an address of a printed line, hence of exactly one.  A
\* unit lies in the union of the lines when its first address does and so
\* does every address of the unit that follows the last address of a line.
C3_Complete ==
  pc = "exit" =>
    /\ \A i, j \in 1 .. Len(stdout) :
         i # j => Disjoint(stdout[i], stdout[j])
    /\ \A u \in saved :
         \A p \in {CallFirst(u)} \cup {Succ(LineLast(l)) : l \in Emitted} :
           InCall(p, u) => InOutput(p)

\* Two overlapping units were saved, a range of 32 blocks and a prefix
\* within it, and the output has the 32 lines of the range.
C3_Witness ==
  /\ pc = "exit"
  /\ saved = {RangeCall(Quad(0, 0, 0, 1), Quad(255, 255, 255, 255)),
              CidrCall(Quad(0, 0, 0, 2), 31)}
  /\ Len(stdout) = 32

\* Bound: a prefix with at most this many host bits is also saved address
\* by address.
MaxHostBits == 2

\* The prefixes (block address, width) saved in the three forms.
PrefixPool ==
  {<<Quad(0, 0, 0, 0), 0>>, <<Quad(128, 0, 0, 0), 1>>,
   <<Quad(255, 255, 255, 248), 29>>, <<Quad(0, 0, 0, 0), 30>>,
   <<Quad(0, 0, 0, 2), 31>>, <<Quad(0, 0, 0, 1), 32>>}

RECURSIVE SaveUp(_, _, _)
\* The root after save_one_addr of x+0, x+1, ..., x+k in this order.
SaveUp(rt, x, k) ==
  IF k < 0 THEN rt
  ELSE save_one_addr(SaveUp(rt, x, k - 1), Or(x, ULong(k)))

RECURSIVE SaveDown(_, _, _, _)
\* The root after save_one_addr of x+top, ..., x+k+1, x+k in this order.
SaveDown(rt, x, k, top) ==
  IF k > top THEN rt
  ELSE save_one_addr(SaveDown(rt, x, k + 1, top), Or(x, ULong(k)))

\* From the root rt the prefix (x, w) saved by save_cidr, by save_range on
\* its first and last address and, when it is small, address by address
\* give the same tree and the same output.
SameForms(rt, x, w) ==
  LET c == save_cidr(rt, x, w)
      r == save_range(rt, x, PrefixLast(x, w))
      top == (2 ^ (32 - w)) - 1
  IN  /\ c = r
      /\ dump_output(c) = dump_output(r)
      /\ (32 - w <= MaxHostBits =>
            /\ SaveUp(rt, x, top) = c
            /\ SaveDown(rt, x, 0, top) = c
            /\ dump_output(SaveUp(rt, x, top)) = dump_output(c))

\* C10: for every prefix, from the same tree, save_cidr, save_range over
\* the prefix's addresses and save_one_addr of each of its addresses yield
\* the same tree and the same output.
C10_Forms == pc = "read" => \A P \in PrefixPool : SameForms(root, P[1], P[2])

\* A tree that already holds a part of the prefix 0.0.0.0/30 (the address
\* 0.0.0.1 and no other) and that each of the three forms changes.
C10_Witness ==
  /\ pc = "read"
  /\ saved = {AddrCall(Quad(0, 0, 0, 1))}
  /\ save_cidr(root, Quad(0, 0, 0, 0), 30) # root
  /\ SaveUp(root, Quad(0, 0, 0, 0), 3) = save_cidr(root, Quad(0, 0, 0, 0), 30)
  /\ save_range(root, Quad(0, 0, 0, 0), Quad(0, 0, 0, 3))
       = save_cidr(root, Quad(0, 0, 0, 0), 30)

-----------------------------------------------------------------------------
(* Properties of read_input *)

\* The calls the well-formed units among us stand for.
Meanings(us) ==
  {Meaning(us[i]) : i \in {j \in 1 .. Len(us) : WellFormed(us[j])}}

\* C4: an error inside one unit abandons only that unit: at the end of
\* input every well-formed unit has been committed, whatever came before
\* it (a unit followed by a malformed one is left aside: whether the error
\* of the next unit may cost it its commit is another matter); and for
\* 10.0.0.256 followed by 10.0.0.1 there is one diagnostic and the output
\* is 10.0.0.1/32.
C4_Isolated ==
  pc = "exit" =>
    /\ \A i \in 1 .. Len(units) :
         (WellFormed(units[i])
            /\ (i = Len(units) \/ WellFormed(units[i + 1])))
           => Meaning(units[i]) \in saved
    /\ units = <<AddrUnit(<<10, 0, 0, 256>>), AddrUnit(<<10, 0, 0, 1>>)>> =>
         /\ stderr = 1
         /\ stdout = <<[quad |-> <<10, 0, 0, 1>>, width |-> 32]>>

\* The states in which whitespace commits a unit (a complete first quad, a
\* complete second quad of a range, a width of at least one digit), and the
\* states in the middle of a unit.
CommitStates == {8, 9, 17, 19}
MidStates == (2 .. 7) \cup (10 .. 16) \cup {18}

\* C5: when the input ends in a state where whitespace would commit, EOF
\* has the outcome of a newline followed by EOF (same calls, same output,
\* same way of ending); when it ends in the middle of a unit with no error
\* latched, EOF prints a diagnostic and commits nothing.
C5_EofAsSpace ==
  (pc = "read" /\ stdin = <<>> /\ n >= 0) =>
    LET e == OnEof(Machine)
        w == OnEof(OnSpace(Machine, NewlineByte))
    IN  /\ state \in CommitStates =>
             Outcome(e) = Outcome(w) /\ e.saved = w.saved
        /\ state \in MidStates =>
             /\ ~e.aborted
             /\ e.stderr = stderr + 1
             /\ e.saved = saved /\ e.root = root

\* C6: the program never calls abort(), whatever the input.
C6_NoAbort == pc # "abort"

\* The bytes that are legal in some place: '.', '-', '/' and whitespace.
PlaceBytes == {DotByte, DashByte, SlashByte} \cup SpaceBytes

\* C7: once a misplaced byte has been reported and has set the error latch
\* inside a unit (state 1 is between units), a further '.', '-', '/',
\* whitespace or EOF in that unit prints no diagnostic.
C7_OnePerUnit ==
  (pc = "read" /\ n >= 0) =>
    \A c1 \in PlaceBytes :
      LET m1 == Feed(Machine, c1)
      IN  (m1.n < 0 /\ m1.state # 1 /\ m1.stderr = stderr + 1) =>
            /\ \A c2 \in PlaceBytes : Feed(m1, c2).stderr = m1.stderr
            /\ OnEof(m1).stderr = m1.stderr

\* C8: a step taken with the error latch set calls no save_ routine (the
\* tree and the history of calls stay as they are), and every call made is
\* the one a well-formed unit written to the input stands for.
C8_NoPartial ==
  [][/\ n < 0 => (root' = root /\ saved' = saved)
     /\ saved' \subseteq Meanings(units')]_vars

\* The input was read to its end with the latch set in state 9, where an
\* address waits for its commit, after a unit was committed and an error
\* was reported.
C8_Witness ==
  /\ pc = "exit" /\ n < 0 /\ state = 9
  /\ saved # {} /\ stderr > 0

\* The text of the units us, a newline after each.
RECURSIVE Text(_)
Text(us) ==
  IF us = <<>> THEN <<>>
  ELSE Head(us).text \o <<NewlineByte>> \o Text(Tail(us))

\* The orders in which k units can be written.
Orders(k) ==
  {p \in [1 .. k -> 1 .. k] : \A i, j \in 1 .. k : p[i] = p[j] => i = j}

\* C9: the units of the input written in any other order give the same
\* output.
C9_Commutes ==
  pc = "exit" =>
    \A p \in Orders(Len(units)) :
      main(Text([i \in 1 .. Len(units) |-> units[p[i]]])).stdout = stdout

-----------------------------------------------------------------------------
(* Properties of save_range, under SpecRange *)

RECURSIVE InTree(_, _, _)
\* The address x is present in the tree under nd, a node at level bit.
InTree(nd, x, bit) ==
  IF nd = ALL THEN TRUE
  ELSE IF nd = NONE \/ bit < 0 THEN FALSE
  ELSE InTree(Sub(nd, BitOf(x, bit)), x, bit - 1)

\* C11: the loop of save_range ends after at most 64 turns (whenever a turn
\* is still due fewer than 64 have been taken), and every turn adds a block
\* of at least one address and moves a1 strictly upwards, also when the
\* range ends at 255.255.255.255 and a1 passes the top of the addresses.
C11_Terminates ==
  [][/\ (rng'.running /\ Le(rng'.a1, rng'.a2)) => Len(rng'.blocks) < 64
     /\ (rng.running /\ rng'.running) =>
          /\ Gt(rng'.a1, rng.a1)
          /\ Len(rng'.blocks) = Len(rng.blocks) + 1
          /\ InTree(root', rng.a1, 31)]_vars

\* The loop over 0.0.0.1 - 255.255.255.255 has ended after 32 turns with
\* a1 = 2^32, past the last address.
C11_Witness ==
  /\ rng.running
  /\ rng.lo = Quad(0, 0, 0, 1) /\ rng.a2 = Quad(255, 255, 255, 255)
  /\ rng.a1 = {32}
  /\ Len(rng.blocks) = 32

\* The last address of the block b.
BlockLast(b) == Plus(b.at, b.m)

\* C14: the blocks save_range adds are, in order, the largest block of a
\* power-of-two size that is aligned at the current a1 and does not pass
\* a2: the first starts at the range's first address, each next one right
\* after the one before (so they are disjoint and contiguous), each is
\* aligned to its size, and when the loop ends the last one ends at a2.
C14_Decomposes ==
  rng.running =>
    LET bs == rng.blocks
        k == Len(bs)
    IN  /\ \A i \in 1 .. k :
             /\ bs[i].m = 0 .. bs[i].bit
             /\ And(bs[i].at, bs[i].m) = {}
             /\ Le(BlockLast(bs[i]), rng.a2)
             /\ bs[i].at = IF i = 1 THEN rng.lo ELSE Succ(BlockLast(bs[i - 1]))
             /\ LET m2 == 0 .. (bs[i].bit + 1)
                IN  And(bs[i].at, m2) # {} \/ Gt(Plus(bs[i].at, m2), rng.a2)
        /\ rng.a1 = IF k = 0 THEN rng.lo ELSE Succ(BlockLast(bs[k]))
        /\ Gt(rng.a1, rng.a2) => (k >= 1 /\ BlockLast(bs[k]) = rng.a2)

\* The loop over 0.0.0.1 - 255.255.255.254 has ended: 31 blocks of growing
\* size and 31 of shrinking size.
C14_Witness ==
  /\ rng.running /\ Gt(rng.a1, rng.a2)
  /\ rng.lo = Quad(0, 0, 0, 1) /\ rng.a2 = Quad(255, 255, 255, 254)
  /\ Len(rng.blocks) = 62
  /\ rng.blocks[31].bit = 29 /\ rng.blocks[32].bit = 29

-----------------------------------------------------------------------------
(* Further properties of the save_ routines, under SpecTrie *)

\* C12: save_range(a1, a2) with a1 > a2 prints one diagnostic and leaves the
\* tree, and so the output, as it was before the call.
C12_ReversedNoOp ==
  [][\A x1 \in LoPool, x2 \in HiPool :
       (Gt(x1, x2) /\ RangeCall(x1, x2) \in saved' \ saved) =>
         /\ root' = root
         /\ dump_output(root') = dump_output(root)
         /\ stderr' = stderr + 1]_vars

\* The reversed range 0.0.0.2 - 0.0.0.1 was saved after the address 0.0.0.0,
\* or before it: the output is the address alone.
C12_Witness ==
  /\ pc = "exit"
  /\ saved = {AddrCall(Quad(0, 0, 0, 0)),
              RangeCall(Quad(0, 0, 0, 2), Quad(0, 0, 0, 1))}
  /\ stderr = 1
  /\ stdout = <<[quad |-> <<0, 0, 0, 0>>, width |-> 32]>>

-----------------------------------------------------------------------------
(* Duplicates, under SpecLines *)

\* Every address of the call u is in the tree rt.  The addresses of u are an
\* interval and the tree is the union of the lines dump_output prints for
\* it, so the interval is in the tree when its first address is and, for
\* every line that ends inside it before its last address, the address after
\* the line is.
Covered(rt, u) ==
  /\ Le(CallFirst(u), CallLast(u))
  /\ InTree(rt, CallFirst(u), 31)
  /\ LET o == dump_output(rt)
     IN  \A i \in 1 .. Len(o) :
           (Le(CallFirst(u), LineLast(o[i])) /\ Gt(CallLast(u), LineLast(o[i])))
             => InTree(rt, Succ(LineLast(o[i])), 31)

\* Calls about the addresses the units of SpecLines hold, some inside what
\* those units save and some not.
AgainPool ==
  {AddrCall(Quad(10, 0, 0, 0)), AddrCall(Quad(10, 0, 0, 1)),
   AddrCall(Quad(10, 0, 0, 2)), AddrCall(Quad(10, 0, 0, 3)),
   CidrCall(Quad(10, 0, 0, 1), 31), CidrCall(Quad(10, 0, 0, 2), 31),
   CidrCall(Quad(10, 0, 0, 1), 32), CidrCall(Quad(10, 0, 0, 0), 30),
   RangeCall(Quad(10, 0, 0, 0), Quad(10, 0, 0, 1)),
   RangeCall(Quad(10, 0, 0, 1), Quad(10, 0, 0, 2)),
   RangeCall(Quad(10, 0, 0, 0), Quad(10, 0, 0, 2)),
   RangeCall(Quad(10, 0, 0, 2), Quad(10, 0, 0, 2))}

\* The inputs the units us make: a newline after each unit, or after each
\* but the last.
Inputs(us) ==
  IF us = <<>> THEN {<<>>}
  ELSE {Text(us), SubSeq(Text(us), 1, Len(Text(us)) - 1)}

\* Every unit of us has the form of an address, a range or a block, whatever
\* the values of its numbers.
InForm(us) == \A i \in 1 .. Len(us) : us[i].form # "junk"

\* C13 as stated: any input written twice gives the same output as written
\* once; and saving a unit whose addresses the tree already holds leaves the
\* tree as it is.
C13_Idempotent ==
  /\ pc \in {"exit", "abort"} =>
       \A s \in Inputs(units) :
         LET once == main(s)
             twice == main(s \o s)
         IN  twice.stdout = once.stdout /\ twice.pc = once.pc
  /\ \A u \in AgainPool \cup saved :
       Covered(root, u) => SaveCall(root, u) = root

\* C13: an input made of units that have the form of an address, a range or
\* a block, each followed by a newline, gives the same output written twice
\* as written once, and ends the same way; and saving a unit whose addresses
\* the tree already holds leaves the tree as it is.
C13_UnitsTwice ==
  /\ (pc = "exit" /\ InForm(units)) =>
       LET twice == main(Text(units \o units))
       IN  twice.stdout = stdout /\ twice.pc = pc
  /\ \A u \in AgainPool \cup saved :
       Covered(root, u) => SaveCall(root, u) = root

\* 10.0.0.0/31 and then 10.0.0.1, which the block holds, were read: saving
\* the address left the block whole.
C13_Witness ==
  /\ pc = "exit"
  /\ units = <<CidrUnit(<<10, 0, 0, 0>>, 31), AddrUnit(<<10, 0, 0, 1>>)>>
  /\ Covered(root, AddrCall(Quad(10, 0, 0, 1)))
  /\ ~Covered(root, AddrCall(Quad(10, 0, 0, 2)))
  /\ stdout = <<[quad |-> <<10, 0, 0, 0>>, width |-> 31]>>

-----------------------------------------------------------------------------
(* save_cidr, under SpecTrie *)

\* Raw addresses and widths given to save_cidr, most with host bits set.
RawPool ==
  {<<Quad(10, 1, 2, 3), 0>>, <<Quad(255, 255, 255, 255), 0>>,
   <<Quad(255, 255, 255, 255), 1>>, <<Quad(10, 1, 2, 3), 24>>,
   <<Quad(0, 0, 0, 3), 31>>, <<Quad(0, 0, 0, 1), 31>>,
   <<Quad(0, 0, 0, 1), 32>>, <<Quad(0, 0, 0, 2), 32>>}

\* Addresses at which the tree is looked up before and after save_cidr(x, w):
\* the ends of the prefix, the addresses right outside it, and some others.
Probes(x, w) ==
  {p \in {PrefixFirst(x, w), PrefixLast(x, w), Succ(PrefixLast(x, w)),
          Minus1(PrefixFirst(x, w)), x, Quad(0, 0, 0, 0), Quad(0, 0, 0, 1),
          Quad(0, 0, 0, 2), Quad(255, 255, 255, 255)} : p \subseteq 0 .. 31}

\* At the probes, the tree after save_cidr(x, w) on rt holds the addresses
\* of rt and of the prefix, and no other.
MarksExactly(rt, x, w) ==
  LET new == save_cidr(rt, x, w)
  IN  \A p \in Probes(x, w) :
        InTree(new, p, 31) <=> (InTree(rt, p, 31) \/ InPrefix(p, x, w))

\* C15: save_cidr(a, w) adds to the tree the 2^(32-w) addresses that agree
\* with a on its top w bits and no other, whatever the host bits of a (looked
\* up at the ends of the block, right outside it and at some more addresses);
\* on the empty tree the output is the one line of the block; with w = 0 the
\* address passed on is 0, the root becomes ALL and the output is 0.0.0.0/0;
\* with w = 32 the tree is the one save_one_addr(a) leaves.
C15_Normalizes ==
  pc = "read" =>
    \A P \in RawPool :
      LET x == P[1]
          w == P[2]
      IN  /\ MarksExactly(root, x, w)
          /\ save_cidr(root, x, w) = save_cidr(root, PrefixFirst(x, w), w)
          /\ CidrBase(x, w) = PrefixFirst(x, w)
          /\ dump_output(save_cidr(NONE, x, w))
               = <<Line(PrefixFirst(x, w), 31 - w)>>
          /\ w = 0 =>
               /\ CidrBase(x, w) = {}
               /\ save_cidr(root, x, w) = ALL
               /\ dump_output(save_cidr(root, x, w))
                    = <<[quad |-> <<0, 0, 0, 0>>, width |-> 0]>>
          /\ w = 32 => save_cidr(root, x, w) = save_one_addr(root, x)

\* 255.255.255.255/1 was saved beside the address 0.0.0.1: the output has
\* the block 128.0.0.0/1.
C15_Witness ==
  /\ pc = "exit"
  /\ saved = {CidrCall(Quad(255, 255, 255, 255), 1), AddrCall(Quad(0, 0, 0, 1))}
  /\ stdout = <<[quad |-> <<0, 0, 0, 1>>, width |-> 32],
                [quad |-> <<128, 0, 0, 0>>, width |-> 1]>>

-----------------------------------------------------------------------------
(* The shape of the tree, under SpecTrie *)

RECURSIVE Height(_)
\* The number of NODEs on the longest path from nd down.
Height(nd) ==
  IF nd.kind # "NODE" THEN 0
  ELSE LET h0 == Height(Sub(nd, 0))
           h1 == Height(Sub(nd, 1))
       IN  1 + (IF h0 > h1 THEN h0 ELSE h1)

\* C16: after any calls of the save_ routines every NODE of the tree is at
\* one of the bits 31 .. 0 (no path holds more than 32 NODEs, the root being
\* at bit 31), and dump_tree never calls abort().
C16_Depth ==
  /\ Height(root) <= 32
  /\ pc # "abort"
  /\ \A i \in 1 .. Len(stdout) : stdout[i] # ABORT

\* The address 0.0.0.1 puts a NODE at every bit from 31 to 0, and the tree
\* was printed.
C16_Witness ==
  /\ pc = "exit"
  /\ AddrCall(Quad(0, 0, 0, 1)) \in saved
  /\ Height(root) = 32
  /\ stdout # <<>>


RECURSIVE HasAll(_)
\* There is an ALL at or under nd.
HasAll(nd) ==
  nd = ALL \/ (nd.kind = "NODE" /\ (HasAll(Sub(nd, 0)) \/ HasAll(Sub(nd, 1))))

RECURSIVE Solid(_)
\* Every NODE at or under nd has a child that is not NONE, and an ALL
\* somewhere under it.
Solid(nd) ==
  nd.kind = "NODE" =>
    /\ Sub(nd, 0) # NONE \/ Sub(nd, 1) # NONE
    /\ HasAll(nd)
    /\ Solid(Sub(nd, 0))
    /\ Solid(Sub(nd, 1))

\* The call u commits a unit: any call but a reversed range.
Commits(u) == Le(CallFirst(u), CallLast(u))

\* C20: after every call of a save_ routine every NODE of the tree has a
\* child that is not NONE, and so an ALL under it; and the root is NONE
\* exactly when no unit was committed.
C20_NoHollow ==
  /\ Solid(root)
  /\ root = NONE <=> ~\E u \in saved : Commits(u)

\* After a reversed range, which commits nothing, 255.255.255.255 was saved:
\* the root is a NODE whose 0 side is NONE.
C20_Witness ==
  /\ pc = "read"
  /\ saved = {RangeCall(Quad(0, 0, 0, 2), Quad(0, 0, 0, 1)),
              AddrCall(Quad(255, 255, 255, 255))}
  /\ root.kind = "NODE" /\ Sub(root, 0) = NONE
  /\ Height(root) = 32

-----------------------------------------------------------------------------
(* The numbers of a unit, under SpecUnits *)

\* The bytes i .. j of the text t are digits.
DigitRun(t, i, j) == \A k \in i .. j : t[k] \in DigitBytes

\* The text t has a number of more than three digits, or a width (a number
\* after the slash) of more than two.
OverLong(t) ==
  \/ \E i \in 1 .. (Len(t) - 3) : DigitRun(t, i, i + 3)
  \/ \E i \in 2 .. (Len(t) - 2) : t[i - 1] = SlashByte /\ DigitRun(t, i, i + 2)

\* C17 as stated: a unit with a number of more than three digits, or a
\* width of more than two, is an error and is not committed.
C17_LengthLimits ==
  (pc = "exit" /\ Len(units) = 1 /\ OverLong(units[1].text)) =>
    (saved = {} /\ stdout = <<>> /\ stderr > 0)

\* The states in which the digits of an octet are accumulated, and the state
\* in which those of a width are.
OctetStates == {2, 4, 6, 8, 11, 13, 15, 17}
WidthState == 19

\* C17 (amended): the limits are on the value, not on the number of digits.
\* A digit read while a number is accumulated makes it ten times the number
\* plus the digit when that is at most 255 (32 for a width), without a
\* diagnostic, however many digits came before; when it is more, there is
\* one diagnostic, the error is latched and nothing is committed.  Only
\* units whose numbers are within the limits are ever committed, and an
\* input of one unit commits it exactly when its numbers are.
C17_ValueLimits ==
  [][/\ (/\ pc = "read" /\ stdin # <<>> /\ Head(stdin) \in DigitBytes
         /\ state \in OctetStates \cup {WidthState} /\ n >= 0) =>
          LET k == (n * 10) + (Head(stdin) - 48)
              limit == IF state = WidthState THEN 32 ELSE 255
          IN  IF k <= limit
              THEN n' = k /\ stderr' = stderr /\ state' = state
              ELSE /\ n' = -1 /\ stderr' = stderr + 1
                   /\ saved' = saved /\ root' = root
     /\ saved' \subseteq Meanings(units')
     /\ (pc' = "exit" /\ Len(units') = 1) =>
          IF WellFormed(units'[1])
          THEN saved' = {Meaning(units'[1])} /\ stderr' = 0
          ELSE saved' = {} /\ stderr' = 1 /\ stdout' = <<>>]_vars

\* The address 10.0.0.0001, whose last number has four digits, was read and
\* committed as 10.0.0.1.
C17_Witness ==
  /\ pc = "exit"
  /\ units = <<AddrUnitPadded(<<10, 0, 0, 1>>, 3)>>
  /\ OverLong(units[1].text)
  /\ stderr = 0
  /\ stdout = <<[quad |-> <<10, 0, 0, 1>>, width |-> 32]>>

-----------------------------------------------------------------------------
(* The pending address, under Spec *)

\* C19: when a complete dotted quad within the limits was followed by
\* whitespace (state 9, no error latched) and the next byte is a dot or a
\* byte that is no syntax, the pending address is saved by save_one_addr
\* before the error is latched with its diagnostic.
C19_PendingKept ==
  [][(/\ pc = "read" /\ state = 9 /\ n >= 0
      /\ stdin # <<>> /\ stdin' = Tail(stdin)
      /\ Head(stdin) \in {DotByte} \cup ((0 .. 255) \ SyntaxBytes)) =>
       /\ AddrCall(a) \in saved'
       /\ root' = save_one_addr(root, a)
       /\ n' = -1
       /\ stderr' = stderr + 1]_vars

-----------------------------------------------------------------------------
(* The release of NODEs, under SpecHeap *)

RECURSIVE Under(_, _)
\* The malloc'ed NODEs at and under the pointer p.
Under(H, p) ==
  IF p = AddrNone \/ p = AddrAll THEN {}
  ELSE {p} \cup Under(H, H.cells[p][1]) \cup Under(H, H.cells[p][2])

\* The NODEs reachable from the root.
Reachable(H) == Under(H, H.root)

RECURSIVE Unfold(_, _)
\* The tree a pointer stands for.
Unfold(H, p) ==
  IF p = AddrNone THEN NONE
  ELSE IF p = AddrAll THEN ALL
  ELSE Node(Unfold(H, H.cells[p][1]), Unfold(H, H.cells[p][2]))

\* C18: at all times every NODE ever allocated is reachable from the root
\* or was freed, no NODE is freed twice and no freed NODE is read or
\* written; a step that puts ALL in a place that pointed to a NODE finds
\* every NODE of that subtree freed; and whenever no call is running no
\* reachable NODE is freed, so that the freed NODEs are exactly those the
\* calls have taken out of the tree, and the memory holds the tree the
\* calls build.
C18_Released ==
  [][/\ Reachable(heap') \cup heap'.freed = 1 .. Len(heap'.cells)
     /\ ~heap'.fault
     /\ heap.freed \subseteq heap'.freed
     /\ (heap.stack # <<>> /\ Load(heap, Top(heap).np) >= 1
           /\ Load(heap', Top(heap).np) = AddrAll) =>
          Under(heap, Load(heap, Top(heap).np)) \subseteq heap'.freed
     /\ Idle(heap') =>
          /\ Reachable(heap') \cap heap'.freed = {}
          /\ Unfold(heap', heap'.root) = root']_vars

\* After the address 0.0.0.1, which takes 32 NODEs, the block 0.0.0.0/30 was
\* saved: the NODEs at bits 1 and 0 were freed and the other 30 are
\* reachable.
C18_Witness ==
  /\ Idle(heap)
  /\ saved = {AddrCall(Quad(0, 0, 0, 1)), CidrCall(Quad(0, 0, 0, 3), 30)}
  /\ Len(heap.cells) = 32
  /\ heap.freed = {31, 32}
  /\ Cardinality(Reachable(heap)) = 30

=============================================================================
